---- MODULE Spec2Model ----
(***************************************************************************)
(* Model of url_unshortener.py: unshorten_url, process_csv and main.       *)
(*                                                                         *)
(* Strings are modelled as sequences of tokens, so that concatenation      *)
(* ("Error: " + str(e)), prefixes and the pieces urlparse cuts a URL into  *)
(* are computed rather than assumed.  A CSV document is the sequence of    *)
(* records csv.reader yields for it (a blank line yields the empty row),   *)
(* possibly followed by bytes the reader cannot decode or parse.           *)
(***************************************************************************)
EXTENDS Integers, Sequences, FiniteSets

VARIABLES
    pc,                 \* position of the run
    caller,             \* "none", "main" (process_csv called by main) or "direct"
    file_content,       \* the CSV document: [rows, corrupt]
    header,             \* main's header (line 135)
    column_index,       \* the selected column (zero-based)
    output,             \* rows written to the csv.writer so far (lines 98-99)
    pos,                \* number of records process_csv's reader has yielded
    bound,              \* are shortened_url/unshortened_url bound (lines 109-110)
    inflight,           \* data rows whose HEAD request has not yet returned
    calls,              \* history of unshorten_url calls: [row, url]
    results,            \* history of what each finished call got and gave
    processed_content,  \* what process_csv returned (<<>>: nothing returned)
    error,              \* name of the exception that ended the run ("": none)
    failedAt,           \* the step that raised it ("": none)
    fileWritten,        \* save_and_download_csv opened the output file
    downloaded          \* files.download was carried out

vars == <<pc, caller, file_content, header, column_index, output, pos, bound,
          inflight, calls, results, processed_content, error, failedAt,
          fileWritten, downloaded>>

-----------------------------------------------------------------------------
(* Bounds of the model *)

MaxRows == 2        \* data rows per document
MaxCols == 2        \* cells per row

-----------------------------------------------------------------------------
(* Strings *)

Digit(n) == <<"0", "1", "2", "3", "4", "5", "6", "7", "8", "9">>[n + 1]

\* The cell in record r, column c of an input document: a short URL that is
\* different in every position of the document.
Cell(r, c) == <<"https", "://", "bit.ly", "/", Digit(r), Digit(c)>>

\* The record with number r and n cells.
Row(r, n) == [c \in 1..n |-> Cell(r, c)]

\* Documents: a header and up to MaxRows data rows, each of 0..MaxCols
\* cells; the empty document; each with or without an unreadable tail.
RowLengths == UNION { [1..k -> 0..MaxCols] : k \in 0..(MaxRows + 1) }

Documents ==
    { [rows |-> [r \in DOMAIN lens |-> Row(r, lens[r])], corrupt |-> bad] :
        lens \in RowLengths, bad \in BOOLEAN }

NoDocument == [rows |-> <<>>, corrupt |-> FALSE]

\* line 104
UnshortenedUrlHeader == <<"Unshortened URL">>

\* line 113
OutOfRangeCell == <<"Error: ", "Column index out of range">>

\* line 45
StillOnShortener == <<"Error: ", "Still on shortener domain">>

\* line 43; each domain is the netloc made of that one token
shortener_domains ==
    { <<"bit.ly">>, <<"tinyurl.com">>, <<"goo.gl">>, <<"t.co">>,
      <<"shorturl.at">>, <<"lnkd.in">> }

-----------------------------------------------------------------------------
(* The HTTP layer *)

\* Final URLs a followed redirect chain can end on.
FinalUrls ==
    { <<"https", "://", "example.com", "/", "final">>,
      <<"https", "://", "bit.ly", "/", "a">>,
      <<"https", "://", "bit.ly", ":", "443", "/", "a">>,
      <<"https", "://", "user", "@", "bit.ly", "/", "a">> }

\* What requests.head(url, allow_redirects=True, timeout=10) can do: return a
\* response whose url is the final URL, raise a requests.RequestException, or
\* raise an exception of another class (urllib3 errors that requests re-raises
\* unwrapped).
HttpOutcomes ==
    { [kind |-> "response", url |-> u, exc |-> "", msg |-> <<>>] : u \in FinalUrls }
    \cup
    { [kind |-> "raise", url |-> <<>>, exc |-> e, msg |-> <<"connection failed">>] :
        e \in {"requests.ConnectionError", "urllib3.LocationParseError"} }

\* The classes `except requests.RequestException` catches (line 48).
IsRequestException(exc) == exc \in {"requests.ConnectionError", "requests.Timeout"}

\* urlparse(url).netloc (line 42): what follows "://" up to the first of / ? #
RECURSIVE TakeNetloc(_)
TakeNetloc(s) ==
    IF s = <<>> \/ Head(s) \in {"/", "?", "#"}
    THEN <<>>
    ELSE <<Head(s)>> \o TakeNetloc(Tail(s))

Netloc(url) ==
    IF Len(url) >= 2 /\ url[2] = "://"
    THEN TakeNetloc(SubSeq(url, 3, Len(url)))
    ELSE <<>>

Return(v) == [raised |-> FALSE, value |-> v, exc |-> ""]
Raise(e) == [raised |-> TRUE, value |-> <<>>, exc |-> e]

\* unshorten_url, given what the HEAD request did (lines 38-49)
unshorten_url(o) ==
    IF o.kind = "response"
    THEN IF Netloc(o.url) \in shortener_domains
         THEN Return(StillOnShortener)
         ELSE Return(o.url)
    ELSE IF IsRequestException(o.exc)
         THEN Return(<<"Error: ">> \o o.msg)
         ELSE Raise(o.exc)

-----------------------------------------------------------------------------
(* csv.reader *)

\* A reader whose first read of an empty input yields an empty record.
NextRecord_blankHeader(content, p) ==
    IF p < Len(content.rows)
    THEN [kind |-> "row", row |-> content.rows[p + 1], exc |-> ""]
    ELSE IF content.corrupt
         THEN [kind |-> "raise", row |-> <<>>, exc |-> "csv.Error"]
         ELSE IF p = 0
              THEN [kind |-> "row", row |-> <<>>, exc |-> ""]
              ELSE [kind |-> "raise", row |-> <<>>, exc |-> "StopIteration"]

\* The record a reader that has yielded p records yields next: a row, or the
\* end of the input (StopIteration), or the failure to decode or parse what
\* follows (csv.Error stands for both).
NextRecord(content, p) ==
    IF p < Len(content.rows)
    THEN [kind |-> "row", row |-> content.rows[p + 1], exc |-> ""]
    ELSE IF content.corrupt
         THEN [kind |-> "raise", row |-> <<>>, exc |-> "csv.Error"]
         ELSE [kind |-> "raise", row |-> <<>>, exc |-> "StopIteration"]

-----------------------------------------------------------------------------
(* process_csv *)

\* A variant that puts the new column name first.
AugmentHeader_front(h) == <<UnshortenedUrlHeader>> \o h

\* line 104: header.append('Unshortened URL')
AugmentHeader(h) == Append(h, UnshortenedUrlHeader)

\* A variant with the comparison off by one.
InRange_offByOne(row, ci) == Len(row) > ci + 1

\* line 108: len(row) > column_index
InRange(row, ci) == Len(row) > ci

\* A variant that inserts the new cell in front of the row.
AugmentRow_front(row, cell) == <<cell>> \o row

\* lines 111 and 113: row.append(...)
AugmentRow(row, cell) == Append(row, cell)

\* A variant that takes the same record again.
Advance_stay(p) == p

\* line 107: the for loop goes on to the reader's next record
Advance(p) == p + 1

\* A variant in which main goes on to save after an exception.
Handler_resume(c) == IF c = "main" THEN "save" ELSE "raised"

\* Where an exception raised under main or under a direct caller ends up:
\* main's handler prints it (lines 141-142), a direct caller receives it.
Handler(c) == IF c = "main" THEN "reported" ELSE "raised"

Abort(exc, step) ==
    /\ error' = exc
    /\ failedAt' = step
    /\ pc' = Handler(caller)

Init ==
    /\ pc = "start"
    /\ caller = "none"
    /\ file_content = NoDocument
    /\ header = <<>>
    /\ column_index = 0
    /\ output = <<>>
    /\ pos = 0
    /\ bound = FALSE
    /\ inflight = {}
    /\ calls = <<>>
    /\ results = <<>>
    /\ processed_content = <<>>
    /\ error = ""
    /\ failedAt = ""
    /\ fileWritten = FALSE
    /\ downloaded = FALSE

-----------------------------------------------------------------------------
(* main, lines 131-142 *)

\* line 133 and get_csv_file (lines 51-61): files.upload() returns the uploaded
\* files; with none uploaded next(iter(uploaded)) raises StopIteration.
GetCsvFile ==
    /\ pc = "start"
    /\ caller' = "main"
    /\ \/ \E doc \in Documents :
            /\ file_content' = doc
            /\ pc' = "read_header"
            /\ UNCHANGED <<error, failedAt>>
       \/ /\ error' = "StopIteration"
          /\ failedAt' = "get_csv_file"
          /\ pc' = Handler("main")
          /\ UNCHANGED file_content
    /\ UNCHANGED <<header, column_index, output, pos, bound, inflight, calls,
                   results, processed_content, fileWritten, downloaded>>

\* lines 134-135: header = next(csv.reader(infile))
ReadHeader ==
    /\ pc = "read_header"
    /\ LET r == NextRecord(file_content, 0) IN
         IF r.kind = "row"
         THEN /\ header' = r.row
              /\ pc' = "select"
              /\ UNCHANGED <<error, failedAt>>
         ELSE /\ Abort(r.exc, "read_header")
              /\ UNCHANGED header
    /\ UNCHANGED <<caller, file_content, column_index, output, pos, bound,
                   inflight, calls, results, processed_content, fileWritten,
                   downloaded>>

\* line 136 and get_column_selection (lines 63-85): the loop returns only an
\* index of the header; any other entry prompts again (no change of state).
\* input() raises EOFError when its stream ends and KeyboardInterrupt when the
\* user interrupts; `except Exception` (line 141) catches the first only.
GetColumnSelection ==
    /\ pc = "select"
    /\ \/ \E i \in 0..(Len(header) - 1) :
            /\ column_index' = i
            /\ pc' = "call_process"
            /\ UNCHANGED <<error, failedAt>>
       \/ \E e \in {"EOFError", "KeyboardInterrupt"} :
            /\ error' = e
            /\ failedAt' = "get_column_selection"
            /\ pc' = IF e = "KeyboardInterrupt" THEN "propagated" ELSE Handler(caller)
            /\ UNCHANGED column_index
    /\ UNCHANGED <<caller, file_content, header, output, pos, bound, inflight,
                   calls, results, processed_content, fileWritten, downloaded>>

\* process_csv(file_content, column_index) called by another caller than main,
\* with any document and any non-negative index.
DirectCall ==
    /\ pc = "start"
    /\ \E doc \in Documents, ci \in 0..MaxCols :
            /\ file_content' = doc
            /\ column_index' = ci
    /\ caller' = "direct"
    /\ pc' = "call_process"
    /\ UNCHANGED <<header, output, pos, bound, inflight, calls, results,
                   processed_content, error, failedAt, fileWritten, downloaded>>

\* lines 98-105: the header is read, augmented and written
ProcessCsvBegin ==
    /\ pc = "call_process"
    /\ LET r == NextRecord(file_content, 0) IN
         IF r.kind = "row"
         THEN /\ output' = <<AugmentHeader(r.row)>>
              /\ pos' = 1
              /\ pc' = "loop"
              /\ UNCHANGED <<error, failedAt>>
         ELSE /\ Abort(r.exc, "process_csv")
              /\ UNCHANGED <<output, pos>>
    /\ UNCHANGED <<caller, file_content, header, column_index, bound, inflight,
                   calls, results, processed_content, fileWritten, downloaded>>

\* lines 107-110 and 39: the next row holds the column; the HEAD request for
\* its cell is issued
CallUnshorten ==
    /\ pc = "loop"
    /\ LET r == NextRecord(file_content, pos) IN
         /\ r.kind = "row"
         /\ InRange(r.row, column_index)
         /\ calls' = Append(calls, [row |-> pos + 1, url |-> r.row[column_index + 1]])
         /\ inflight' = inflight \cup {pos + 1}
    /\ pc' = "resolving"
    /\ UNCHANGED <<caller, file_content, header, column_index, output, pos,
                   bound, results, processed_content, error, failedAt,
                   fileWritten, downloaded>>

\* lines 39-49 and 110-115: the request ends, unshorten_url returns or raises;
\* the returned string is appended, the row written and the line printed
ResolveReturn ==
    /\ pc = "resolving"
    /\ \E o \in HttpOutcomes :
         LET res == unshorten_url(o)
             row == file_content.rows[pos + 1]
         IN  /\ results' = Append(results, [row |-> pos + 1, outcome |-> o, result |-> res])
             /\ inflight' = inflight \ {pos + 1}
             /\ IF res.raised
                THEN /\ Abort(res.exc, "process_csv")
                     /\ UNCHANGED <<output, pos, bound>>
                ELSE /\ output' = Append(output, AugmentRow(row, res.value))
                     /\ bound' = TRUE
                     /\ pos' = Advance(pos)
                     /\ pc' = "loop"
                     /\ UNCHANGED <<error, failedAt>>
    /\ UNCHANGED <<caller, file_content, header, column_index, calls,
                   processed_content, fileWritten, downloaded>>

\* lines 107-108 and 112-115: the next row is too short; the literal is
\* appended and the row written; the print of line 115 then reads
\* shortened_url and unshortened_url, which are unbound until a row has been
\* resolved (UnboundLocalError)
RowOutOfRange ==
    /\ pc = "loop"
    /\ LET r == NextRecord(file_content, pos) IN
         /\ r.kind = "row"
         /\ ~InRange(r.row, column_index)
         /\ output' = Append(output, AugmentRow(r.row, OutOfRangeCell))
    /\ IF bound
       THEN /\ pos' = Advance(pos)
            /\ UNCHANGED <<pc, error, failedAt>>
       ELSE /\ Abort("UnboundLocalError", "process_csv")
            /\ UNCHANGED pos
    /\ UNCHANGED <<caller, file_content, header, column_index, bound, inflight,
                   calls, results, processed_content, fileWritten, downloaded>>

\* lines 107 and 117: the reader is exhausted and the output returned, or the
\* reader fails on what follows
ProcessCsvEnd ==
    /\ pc = "loop"
    /\ LET r == NextRecord(file_content, pos) IN
         /\ r.kind = "raise"
         /\ IF r.exc = "StopIteration"
            THEN /\ processed_content' = output
                 /\ pc' = IF caller = "main" THEN "save" ELSE "returned"
                 /\ UNCHANGED <<error, failedAt>>
            ELSE /\ Abort(r.exc, "process_csv")
                 /\ UNCHANGED processed_content
    /\ UNCHANGED <<caller, file_content, header, column_index, output, pos,
                   bound, inflight, calls, results, fileWritten, downloaded>>

\* lines 138-140 and save_and_download_csv (lines 119-129): open() creates the
\* file or fails; files.download delivers it or fails
SaveAndDownload ==
    /\ pc = "save"
    /\ \/ /\ fileWritten' = TRUE
          /\ downloaded' = TRUE
          /\ pc' = "complete"
          /\ UNCHANGED <<error, failedAt>>
       \/ /\ Abort("OSError", "save_and_download_csv")
          /\ UNCHANGED <<fileWritten, downloaded>>
       \/ /\ fileWritten' = TRUE
          /\ Abort("DownloadError", "save_and_download_csv")
          /\ UNCHANGED downloaded
    /\ UNCHANGED <<caller, file_content, header, column_index, output, pos,
                   bound, inflight, calls, results, processed_content>>

Next ==
    \/ GetCsvFile
    \/ ReadHeader
    \/ GetColumnSelection
    \/ DirectCall
    \/ ProcessCsvBegin
    \/ CallUnshorten
    \/ ResolveReturn
    \/ RowOutOfRange
    \/ ProcessCsvEnd
    \/ SaveAndDownload

Spec == Init /\ [][Next]_vars

-----------------------------------------------------------------------------
(* Properties *)

InputRows == file_content.rows

\* The input is a header followed by data rows the reader can all read.
ValidInput == Len(InputRows) >= 1 /\ ~file_content.corrupt

\* process_csv has returned / has raised.
Returned == processed_content # <<>>
ProcessRaised == failedAt = "process_csv"

Last(row) == row[Len(row)]
ButLast(row) == SubSeq(row, 1, Len(row) - 1)

CalledRows == { calls[j].row : j \in DOMAIN calls }

\* The host of a URL: its netloc without the userinfo before the last "@" and
\* without the port after ":".
StripUserinfo(n) ==
    IF \E i \in DOMAIN n : n[i] = "@"
    THEN LET i == CHOOSE i \in DOMAIN n :
                    n[i] = "@" /\ \A j \in DOMAIN n : n[j] = "@" => j <= i
         IN  SubSeq(n, i + 1, Len(n))
    ELSE n

StripPort(h) ==
    IF \E i \in DOMAIN h : h[i] = ":"
    THEN LET i == CHOOSE i \in DOMAIN h :
                    h[i] = ":" /\ \A j \in DOMAIN h : h[j] = ":" => i <= j
         IN  SubSeq(h, 1, i - 1)
    ELSE h

Hostname(url) == StripPort(StripUserinfo(Netloc(url)))

\* C1: for every valid input (a header and any data rows, short and empty rows
\* included) and any resolver outcomes, process_csv returns a document with as
\* many rows as the input, every row one cell longer than the input row.
C1_ColumnInvariant ==
    (ValidInput /\ (Returned \/ ProcessRaised)) =>
        /\ Returned
        /\ Len(processed_content) = Len(InputRows)
        /\ \A i \in DOMAIN processed_content :
              Len(processed_content[i]) = Len(InputRows[i]) + 1

\* C2: a per-row failure (network error, shortener loop, column out of range)
\* never aborts process_csv, whatever the row's position: process_csv raises
\* only on structural failures (no header, malformed or undecodable input).
C2_RowFailuresNeverAbort ==
    ProcessRaised => error \in {"StopIteration", "csv.Error"}

C4_ShortenerIffHost ==
    \A j \in DOMAIN results :
        LET o == results[j].outcome
            r == results[j].result
        IN  o.kind = "response" =>
              /\ ~r.raised
              /\ IF Hostname(o.url) \in shortener_domains
                 THEN r.value = <<"Error: ", "Still on shortener domain">>
                 ELSE r.value = o.url

\* C5: unshorten_url never lets an exception propagate: whatever the HTTP layer
\* raises, it returns "Error: " followed by the error's description.
C5_NoExceptionPropagates ==
    \A j \in DOMAIN results :
        LET o == results[j].outcome
            r == results[j].result
        IN  o.kind = "raise" =>
              /\ ~r.raised
              /\ r.value = <<"Error: ">> \o o.msg

\* C6: for every input with a header row, the first row process_csv writes is
\* the input header with the one cell "Unshortened URL" appended, whatever the
\* header and column_index; it is written before any data row, and no cell of
\* the header is passed to unshorten_url.
C6_HeaderAugmented ==
    /\ (Len(InputRows) >= 1 /\ pc \in {"loop", "resolving", "save", "complete", "returned"})
          => output # <<>>
    /\ output = <<>> => calls = <<>>
    /\ output # <<>> =>
          /\ output[1] = InputRows[1] \o << <<"Unshortened URL">> >>
          /\ 1 \notin CalledRows

C6_Witness ==
    /\ pc = "returned"
    /\ Len(InputRows[1]) = 2
    /\ column_index = 0
    /\ calls # <<>>

C8_EmptyInputFatal ==
    (pc # "start" /\ InputRows = <<>> /\ ~file_content.corrupt) =>
        /\ pc \in {"read_header", "call_process", "reported", "raised"}
        /\ pc \in {"reported", "raised"} => error = "StopIteration"
        /\ output = <<>>
        /\ ~Returned
        /\ calls = <<>>
        /\ ~fileWritten
        /\ ~downloaded

C8_Witness ==
    /\ pc = "raised"
    /\ InputRows = <<>>
    /\ ~file_content.corrupt
    /\ failedAt = "process_csv"
    /\ error = "StopIteration"

MainSteps ==
    /\ pc = "read_header" => header = <<>> /\ output = <<>>
    /\ pc \in {"select", "call_process"} =>
          header = InputRows[1] /\ output = <<>> /\ ~Returned
    /\ pc = "call_process" => column_index \in 0..(Len(header) - 1)
    /\ pc \in {"loop", "resolving"} => ~Returned /\ ~fileWritten
    /\ pc = "save" => Returned /\ ~fileWritten /\ error = ""
    /\ fileWritten =>
          /\ Returned
          /\ processed_content = output
          /\ Len(processed_content) = Len(InputRows)
    /\ downloaded => fileWritten /\ pc = "complete"
    /\ pc = "complete" => downloaded /\ error = ""

\* C10 as stated: main's steps occur in the order acquire, read header, select
\* column, process_csv, save_and_download_csv; the output is saved at most once
\* and only after process_csv returned it whole; a run that fails at any step
\* writes and downloads no output file; main never propagates an exception.
C10_Original ==
    caller = "main" =>
        /\ MainSteps
        /\ error # "" => ~fileWritten /\ ~downloaded
        /\ error # "" => pc = "reported"

\* C10 as amended: the same order; a run that fails before
\* save_and_download_csv writes and downloads no output file, and one that
\* fails inside it downloads none but may leave the file written; main prints
\* and returns on every exception derived from Exception, and only a
\* KeyboardInterrupt propagates.
C10_MainOrder ==
    caller = "main" =>
        /\ MainSteps
        /\ (error # "" /\ failedAt # "save_and_download_csv") => ~fileWritten
        /\ error # "" => ~downloaded
        /\ error \notin {"", "KeyboardInterrupt"} => pc = "reported"
        /\ pc = "propagated" => error = "KeyboardInterrupt"

C10_Witness ==
    /\ caller = "main"
    /\ pc = "reported"
    /\ failedAt = "save_and_download_csv"
    /\ fileWritten
    /\ ~downloaded

====
